---- MODULE Spec2Model ----
(***************************************************************************)
(* Model of app/protocol_filter.ts: the handler installed for the `file`   *)
(* scheme.  A request URL is percent-decoded, stripped of scheme, query    *)
(* and fragment, normalized, resolved through symlinks when it exists,     *)
(* and accepted when the resolved path starts with an allowed root.        *)
(*                                                                         *)
(* A JavaScript string is a sequence of UTF-16 code units (naturals).      *)
(* `path` is the POSIX implementation of Node's path module, `fs` a small  *)
(* case-sensitive file tree with symbolic links, read by the kernel        *)
(* (existsSync, statSync) and by realpathSync's own loop; isWindows is the *)
(* flag the handler is created with, whatever the host.  Response is the   *)
(* Fetch class: its constructor rejects a status outside 200..599.         *)
(***************************************************************************)
EXTENDS Integers, Sequences, FiniteSets, TLC

(***************************************************************************)
(* String literals.                                                        *)
(***************************************************************************)
\* The printable ASCII characters in code order: Ascii[i] has code i + 31
\* (the grave accent, code 96, is spelled out: it cannot be written in a string).
Ascii ==
  << " ", "!", "\"", "#", "$", "%", "&", "'", "(", ")", "*", "+", ",", "-", ".", "/",
     "0", "1", "2", "3", "4", "5", "6", "7", "8", "9", ":", ";", "<", "=", ">", "?",
     "@", "A", "B", "C", "D", "E", "F", "G", "H", "I", "J", "K", "L", "M", "N", "O",
     "P", "Q", "R", "S", "T", "U", "V", "W", "X", "Y", "Z", "[", "\\", "]", "^", "_",
     "grave", "a", "b", "c", "d", "e", "f", "g", "h", "i", "j", "k", "l", "m", "n", "o",
     "p", "q", "r", "s", "t", "u", "v", "w", "x", "y", "z", "{", "|", "}", "~" >>

\* The code unit of a one-character string.
Code(c) == 31 + (CHOOSE i \in 1..Len(Ascii) : Ascii[i] = c)

\* The JavaScript string written as a tuple of one-character strings.
Str(t) == [i \in 1..Len(t) |-> Code(t[i])]

\* The code units the code names.
Slash == Code("/")

Dot == Code(".")

Percent == Code("%")

QuestionMark == Code("?")

HashMark == Code("#")

\* String.prototype.slice(start) for start >= 0.
Slice(s, start) == IF start >= Len(s) THEN << >> ELSE SubSeq(s, start + 1, Len(s))

\* String.prototype.slice(0, end) for 0 <= end <= length.
Take(s, end) == SubSeq(s, 1, end)

\* String.prototype.indexOf(character): 0-based, -1 when absent.
IndexOf(s, c) ==
  IF \E i \in 1..Len(s) : s[i] = c
  THEN (CHOOSE i \in 1..Len(s) : s[i] = c /\ \A j \in 1..(i - 1) : s[j] # c) - 1
  ELSE -1

\* String.prototype.startsWith(prefix).
StartsWith(s, prefix) ==
  /\ Len(prefix) <= Len(s)
  /\ \A i \in 1..Len(prefix) : s[i] = prefix[i]

\* The concatenation of the strings of a sequence.
RECURSIVE Concat(_)
Concat(ss) == IF Len(ss) = 0 THEN << >> ELSE Head(ss) \o Concat(Tail(ss))

\* Whether a surrogate pair starts at position k of s.
PairAt(s, k) == k < Len(s) /\ s[k] \in 55296..56319 /\ s[k + 1] \in 56320..57343

\* Whether the unit at position k of s is a surrogate outside any pair.
LoneAt(s, k) ==
  /\ s[k] \in 55296..57343
  /\ ~PairAt(s, k)
  /\ ~(k > 1 /\ PairAt(s, k - 1))

\* The code point the unit at position k of s belongs to: the pair's when the
\* unit is half of a surrogate pair, the unit itself otherwise.
PointAt(s, k) ==
  IF PairAt(s, k) THEN 65536 + (s[k] - 55296) * 1024 + (s[k + 1] - 56320)
  ELSE IF k > 1 /\ PairAt(s, k - 1) THEN 65536 + (s[k - 1] - 55296) * 1024 + (s[k] - 56320)
  ELSE s[k]

\* The UTF-16 code units of a code point.
Utf16(cp) ==
  IF cp < 65536 THEN << cp >>
  ELSE << 55296 + ((cp - 65536) \div 1024), 56320 + ((cp - 65536) % 1024) >>

\* The simple lower-case mappings of the Unicode Character Database, version
\* 17.0, as rows << first, last, step, offset >>: the code points first,
\* first + step, .. up to last map to themselves plus offset.
LowerTable ==
  { << 65, 90, 1, 32 >>, << 192, 214, 1, 32 >>, << 216, 222, 1, 32 >>, << 256, 302, 2, 1 >>,
    << 306, 310, 2, 1 >>, << 313, 327, 2, 1 >>, << 330, 374, 2, 1 >>, << 376, 376, 1, -121 >>,
    << 377, 381, 2, 1 >>, << 385, 385, 1, 210 >>, << 386, 388, 2, 1 >>, << 390, 390, 1, 206 >>,
    << 391, 391, 1, 1 >>, << 393, 394, 1, 205 >>, << 395, 395, 1, 1 >>, << 398, 398, 1, 79 >>,
    << 399, 399, 1, 202 >>, << 400, 400, 1, 203 >>, << 401, 401, 1, 1 >>, << 403, 403, 1, 205 >>,
    << 404, 404, 1, 207 >>, << 406, 406, 1, 211 >>, << 407, 407, 1, 209 >>, << 408, 408, 1, 1 >>,
    << 412, 412, 1, 211 >>, << 413, 413, 1, 213 >>, << 415, 415, 1, 214 >>, << 416, 420, 2, 1 >>,
    << 422, 422, 1, 218 >>, << 423, 423, 1, 1 >>, << 425, 425, 1, 218 >>, << 428, 428, 1, 1 >>,
    << 430, 430, 1, 218 >>, << 431, 431, 1, 1 >>, << 433, 434, 1, 217 >>, << 435, 437, 2, 1 >>,
    << 439, 439, 1, 219 >>, << 440, 440, 1, 1 >>, << 444, 444, 1, 1 >>, << 452, 452, 1, 2 >>,
    << 453, 453, 1, 1 >>, << 455, 455, 1, 2 >>, << 456, 456, 1, 1 >>, << 458, 458, 1, 2 >>,
    << 459, 475, 2, 1 >>, << 478, 494, 2, 1 >>, << 497, 497, 1, 2 >>, << 498, 500, 2, 1 >>,
    << 502, 502, 1, -97 >>, << 503, 503, 1, -56 >>, << 504, 542, 2, 1 >>, << 544, 544, 1, -130 >>,
    << 546, 562, 2, 1 >>, << 570, 570, 1, 10795 >>, << 571, 571, 1, 1 >>, << 573, 573, 1, -163 >>,
    << 574, 574, 1, 10792 >>, << 577, 577, 1, 1 >>, << 579, 579, 1, -195 >>, << 580, 580, 1, 69 >>,
    << 581, 581, 1, 71 >>, << 582, 590, 2, 1 >>, << 880, 882, 2, 1 >>, << 886, 886, 1, 1 >>,
    << 895, 895, 1, 116 >>, << 902, 902, 1, 38 >>, << 904, 906, 1, 37 >>, << 908, 908, 1, 64 >>,
    << 910, 911, 1, 63 >>, << 913, 929, 1, 32 >>, << 931, 939, 1, 32 >>, << 975, 975, 1, 8 >>,
    << 984, 1006, 2, 1 >>, << 1012, 1012, 1, -60 >>, << 1015, 1015, 1, 1 >>, << 1017, 1017, 1, -7 >>,
    << 1018, 1018, 1, 1 >>, << 1021, 1023, 1, -130 >>, << 1024, 1039, 1, 80 >>, << 1040, 1071, 1, 32 >>,
    << 1120, 1152, 2, 1 >>, << 1162, 1214, 2, 1 >>, << 1216, 1216, 1, 15 >>, << 1217, 1229, 2, 1 >>,
    << 1232, 1326, 2, 1 >>, << 1329, 1366, 1, 48 >>, << 4256, 4293, 1, 7264 >>, << 4295, 4295, 1, 7264 >>,
    << 4301, 4301, 1, 7264 >>, << 5024, 5103, 1, 38864 >>, << 5104, 5109, 1, 8 >>, << 7305, 7305, 1, 1 >>,
    << 7312, 7354, 1, -3008 >>, << 7357, 7359, 1, -3008 >>, << 7680, 7828, 2, 1 >>, << 7838, 7838, 1, -7615 >>,
    << 7840, 7934, 2, 1 >>, << 7944, 7951, 1, -8 >>, << 7960, 7965, 1, -8 >>, << 7976, 7983, 1, -8 >>,
    << 7992, 7999, 1, -8 >>, << 8008, 8013, 1, -8 >>, << 8025, 8031, 2, -8 >>, << 8040, 8047, 1, -8 >>,
    << 8072, 8079, 1, -8 >>, << 8088, 8095, 1, -8 >>, << 8104, 8111, 1, -8 >>, << 8120, 8121, 1, -8 >>,
    << 8122, 8123, 1, -74 >>, << 8124, 8124, 1, -9 >>, << 8136, 8139, 1, -86 >>, << 8140, 8140, 1, -9 >>,
    << 8152, 8153, 1, -8 >>, << 8154, 8155, 1, -100 >>, << 8168, 8169, 1, -8 >>, << 8170, 8171, 1, -112 >>,
    << 8172, 8172, 1, -7 >>, << 8184, 8185, 1, -128 >>, << 8186, 8187, 1, -126 >>, << 8188, 8188, 1, -9 >>,
    << 8486, 8486, 1, -7517 >>, << 8490, 8490, 1, -8383 >>, << 8491, 8491, 1, -8262 >>, << 8498, 8498, 1, 28 >>,
    << 8544, 8559, 1, 16 >>, << 8579, 8579, 1, 1 >>, << 9398, 9423, 1, 26 >>, << 11264, 11311, 1, 48 >>,
    << 11360, 11360, 1, 1 >>, << 11362, 11362, 1, -10743 >>, << 11363, 11363, 1, -3814 >>, << 11364, 11364, 1, -10727 >>,
    << 11367, 11371, 2, 1 >>, << 11373, 11373, 1, -10780 >>, << 11374, 11374, 1, -10749 >>, << 11375, 11375, 1, -10783 >>,
    << 11376, 11376, 1, -10782 >>, << 11378, 11378, 1, 1 >>, << 11381, 11381, 1, 1 >>, << 11390, 11391, 1, -10815 >>,
    << 11392, 11490, 2, 1 >>, << 11499, 11501, 2, 1 >>, << 11506, 11506, 1, 1 >>, << 42560, 42604, 2, 1 >>,
    << 42624, 42650, 2, 1 >>, << 42786, 42798, 2, 1 >>, << 42802, 42862, 2, 1 >>, << 42873, 42875, 2, 1 >>,
    << 42877, 42877, 1, -35332 >>, << 42878, 42886, 2, 1 >>, << 42891, 42891, 1, 1 >>, << 42893, 42893, 1, -42280 >>,
    << 42896, 42898, 2, 1 >>, << 42902, 42920, 2, 1 >>, << 42922, 42922, 1, -42308 >>, << 42923, 42923, 1, -42319 >>,
    << 42924, 42924, 1, -42315 >>, << 42925, 42925, 1, -42305 >>, << 42926, 42926, 1, -42308 >>, << 42928, 42928, 1, -42258 >>,
    << 42929, 42929, 1, -42282 >>, << 42930, 42930, 1, -42261 >>, << 42931, 42931, 1, 928 >>, << 42932, 42946, 2, 1 >>,
    << 42948, 42948, 1, -48 >>, << 42949, 42949, 1, -42307 >>, << 42950, 42950, 1, -35384 >>, << 42951, 42953, 2, 1 >>,
    << 42955, 42955, 1, -42343 >>, << 42956, 42970, 2, 1 >>, << 42972, 42972, 1, -42561 >>, << 42997, 42997, 1, 1 >>,
    << 65313, 65338, 1, 32 >>, << 66560, 66599, 1, 40 >>, << 66736, 66771, 1, 40 >>, << 66928, 66964, 2, 39 >>,
    << 66929, 66937, 2, 39 >>, << 66941, 66953, 2, 39 >>, << 66957, 66961, 2, 39 >>, << 66965, 66965, 1, 39 >>,
    << 68736, 68786, 1, 64 >>, << 68944, 68965, 1, 32 >>, << 71840, 71871, 1, 32 >>, << 93760, 93791, 1, 32 >>,
    << 93856, 93880, 1, 27 >>, << 125184, 125217, 1, 34 >> }

\* The code points with the property Cased (Unicode 17.0), as ranges
\* << first, last >>.
CasedRanges ==
  { << 65, 90 >>, << 97, 122 >>, << 170, 170 >>, << 181, 181 >>, << 186, 186 >>,
    << 192, 214 >>, << 216, 246 >>, << 248, 442 >>, << 444, 447 >>, << 452, 659 >>,
    << 662, 696 >>, << 704, 705 >>, << 736, 740 >>, << 837, 837 >>, << 880, 883 >>,
    << 886, 887 >>, << 890, 893 >>, << 895, 895 >>, << 902, 902 >>, << 904, 906 >>,
    << 908, 908 >>, << 910, 929 >>, << 931, 1013 >>, << 1015, 1153 >>, << 1162, 1327 >>,
    << 1329, 1366 >>, << 1376, 1416 >>, << 4256, 4293 >>, << 4295, 4295 >>, << 4301, 4301 >>,
    << 4304, 4346 >>, << 4348, 4351 >>, << 5024, 5109 >>, << 5112, 5117 >>, << 7296, 7306 >>,
    << 7312, 7354 >>, << 7357, 7359 >>, << 7424, 7615 >>, << 7680, 7957 >>, << 7960, 7965 >>,
    << 7968, 8005 >>, << 8008, 8013 >>, << 8016, 8023 >>, << 8025, 8025 >>, << 8027, 8027 >>,
    << 8029, 8029 >>, << 8031, 8061 >>, << 8064, 8116 >>, << 8118, 8124 >>, << 8126, 8126 >>,
    << 8130, 8132 >>, << 8134, 8140 >>, << 8144, 8147 >>, << 8150, 8155 >>, << 8160, 8172 >>,
    << 8178, 8180 >>, << 8182, 8188 >>, << 8305, 8305 >>, << 8319, 8319 >>, << 8336, 8348 >>,
    << 8450, 8450 >>, << 8455, 8455 >>, << 8458, 8467 >>, << 8469, 8469 >>, << 8473, 8477 >>,
    << 8484, 8484 >>, << 8486, 8486 >>, << 8488, 8488 >>, << 8490, 8493 >>, << 8495, 8500 >>,
    << 8505, 8505 >>, << 8508, 8511 >>, << 8517, 8521 >>, << 8526, 8526 >>, << 8544, 8575 >>,
    << 8579, 8580 >>, << 9398, 9449 >>, << 11264, 11492 >>, << 11499, 11502 >>, << 11506, 11507 >>,
    << 11520, 11557 >>, << 11559, 11559 >>, << 11565, 11565 >>, << 42560, 42605 >>, << 42624, 42653 >>,
    << 42786, 42887 >>, << 42891, 42894 >>, << 42896, 42972 >>, << 42993, 42998 >>, << 43000, 43002 >>,
    << 43824, 43866 >>, << 43868, 43881 >>, << 43888, 43967 >>, << 64256, 64262 >>, << 64275, 64279 >>,
    << 65313, 65338 >>, << 65345, 65370 >>, << 66560, 66639 >>, << 66736, 66771 >>, << 66776, 66811 >>,
    << 66928, 66938 >>, << 66940, 66954 >>, << 66956, 66962 >>, << 66964, 66965 >>, << 66967, 66977 >>,
    << 66979, 66993 >>, << 66995, 67001 >>, << 67003, 67004 >>, << 67456, 67456 >>, << 67459, 67461 >>,
    << 67463, 67504 >>, << 67506, 67514 >>, << 68736, 68786 >>, << 68800, 68850 >>, << 68944, 68965 >>,
    << 68976, 68997 >>, << 71840, 71903 >>, << 93760, 93823 >>, << 93856, 93880 >>, << 93883, 93907 >>,
    << 119808, 119892 >>, << 119894, 119964 >>, << 119966, 119967 >>, << 119970, 119970 >>, << 119973, 119974 >>,
    << 119977, 119980 >>, << 119982, 119993 >>, << 119995, 119995 >>, << 119997, 120003 >>, << 120005, 120069 >>,
    << 120071, 120074 >>, << 120077, 120084 >>, << 120086, 120092 >>, << 120094, 120121 >>, << 120123, 120126 >>,
    << 120128, 120132 >>, << 120134, 120134 >>, << 120138, 120144 >>, << 120146, 120485 >>, << 120488, 120512 >>,
    << 120514, 120538 >>, << 120540, 120570 >>, << 120572, 120596 >>, << 120598, 120628 >>, << 120630, 120654 >>,
    << 120656, 120686 >>, << 120688, 120712 >>, << 120714, 120744 >>, << 120746, 120770 >>, << 120772, 120779 >>,
    << 122624, 122633 >>, << 122635, 122654 >>, << 122661, 122666 >>, << 122928, 122989 >>, << 125184, 125251 >>,
    << 127280, 127305 >>, << 127312, 127337 >>, << 127344, 127369 >> }

\* The code points with the property Case_Ignorable (Unicode 17.0), as
\* ranges << first, last >>.
CaseIgnorableRanges ==
  { << 39, 39 >>, << 46, 46 >>, << 58, 58 >>, << 94, 94 >>, << 96, 96 >>,
    << 168, 168 >>, << 173, 173 >>, << 175, 175 >>, << 180, 180 >>, << 183, 184 >>,
    << 688, 879 >>, << 884, 885 >>, << 890, 890 >>, << 900, 901 >>, << 903, 903 >>,
    << 1155, 1161 >>, << 1369, 1369 >>, << 1375, 1375 >>, << 1425, 1469 >>, << 1471, 1471 >>,
    << 1473, 1474 >>, << 1476, 1477 >>, << 1479, 1479 >>, << 1524, 1524 >>, << 1536, 1541 >>,
    << 1552, 1562 >>, << 1564, 1564 >>, << 1600, 1600 >>, << 1611, 1631 >>, << 1648, 1648 >>,
    << 1750, 1757 >>, << 1759, 1768 >>, << 1770, 1773 >>, << 1807, 1807 >>, << 1809, 1809 >>,
    << 1840, 1866 >>, << 1958, 1968 >>, << 2027, 2037 >>, << 2042, 2042 >>, << 2045, 2045 >>,
    << 2070, 2093 >>, << 2137, 2139 >>, << 2184, 2184 >>, << 2192, 2193 >>, << 2199, 2207 >>,
    << 2249, 2306 >>, << 2362, 2362 >>, << 2364, 2364 >>, << 2369, 2376 >>, << 2381, 2381 >>,
    << 2385, 2391 >>, << 2402, 2403 >>, << 2417, 2417 >>, << 2433, 2433 >>, << 2492, 2492 >>,
    << 2497, 2500 >>, << 2509, 2509 >>, << 2530, 2531 >>, << 2558, 2558 >>, << 2561, 2562 >>,
    << 2620, 2620 >>, << 2625, 2626 >>, << 2631, 2632 >>, << 2635, 2637 >>, << 2641, 2641 >>,
    << 2672, 2673 >>, << 2677, 2677 >>, << 2689, 2690 >>, << 2748, 2748 >>, << 2753, 2757 >>,
    << 2759, 2760 >>, << 2765, 2765 >>, << 2786, 2787 >>, << 2810, 2815 >>, << 2817, 2817 >>,
    << 2876, 2876 >>, << 2879, 2879 >>, << 2881, 2884 >>, << 2893, 2893 >>, << 2901, 2902 >>,
    << 2914, 2915 >>, << 2946, 2946 >>, << 3008, 3008 >>, << 3021, 3021 >>, << 3072, 3072 >>,
    << 3076, 3076 >>, << 3132, 3132 >>, << 3134, 3136 >>, << 3142, 3144 >>, << 3146, 3149 >>,
    << 3157, 3158 >>, << 3170, 3171 >>, << 3201, 3201 >>, << 3260, 3260 >>, << 3263, 3263 >>,
    << 3270, 3270 >>, << 3276, 3277 >>, << 3298, 3299 >>, << 3328, 3329 >>, << 3387, 3388 >>,
    << 3393, 3396 >>, << 3405, 3405 >>, << 3426, 3427 >>, << 3457, 3457 >>, << 3530, 3530 >>,
    << 3538, 3540 >>, << 3542, 3542 >>, << 3633, 3633 >>, << 3636, 3642 >>, << 3654, 3662 >>,
    << 3761, 3761 >>, << 3764, 3772 >>, << 3782, 3782 >>, << 3784, 3790 >>, << 3864, 3865 >>,
    << 3893, 3893 >>, << 3895, 3895 >>, << 3897, 3897 >>, << 3953, 3966 >>, << 3968, 3972 >>,
    << 3974, 3975 >>, << 3981, 3991 >>, << 3993, 4028 >>, << 4038, 4038 >>, << 4141, 4144 >>,
    << 4146, 4151 >>, << 4153, 4154 >>, << 4157, 4158 >>, << 4184, 4185 >>, << 4190, 4192 >>,
    << 4209, 4212 >>, << 4226, 4226 >>, << 4229, 4230 >>, << 4237, 4237 >>, << 4253, 4253 >>,
    << 4348, 4348 >>, << 4957, 4959 >>, << 5906, 5908 >>, << 5938, 5939 >>, << 5970, 5971 >>,
    << 6002, 6003 >>, << 6068, 6069 >>, << 6071, 6077 >>, << 6086, 6086 >>, << 6089, 6099 >>,
    << 6103, 6103 >>, << 6109, 6109 >>, << 6155, 6159 >>, << 6211, 6211 >>, << 6277, 6278 >>,
    << 6313, 6313 >>, << 6432, 6434 >>, << 6439, 6440 >>, << 6450, 6450 >>, << 6457, 6459 >>,
    << 6679, 6680 >>, << 6683, 6683 >>, << 6742, 6742 >>, << 6744, 6750 >>, << 6752, 6752 >>,
    << 6754, 6754 >>, << 6757, 6764 >>, << 6771, 6780 >>, << 6783, 6783 >>, << 6823, 6823 >>,
    << 6832, 6877 >>, << 6880, 6891 >>, << 6912, 6915 >>, << 6964, 6964 >>, << 6966, 6970 >>,
    << 6972, 6972 >>, << 6978, 6978 >>, << 7019, 7027 >>, << 7040, 7041 >>, << 7074, 7077 >>,
    << 7080, 7081 >>, << 7083, 7085 >>, << 7142, 7142 >>, << 7144, 7145 >>, << 7149, 7149 >>,
    << 7151, 7153 >>, << 7212, 7219 >>, << 7222, 7223 >>, << 7288, 7293 >>, << 7376, 7378 >>,
    << 7380, 7392 >>, << 7394, 7400 >>, << 7405, 7405 >>, << 7412, 7412 >>, << 7416, 7417 >>,
    << 7468, 7530 >>, << 7544, 7544 >>, << 7579, 7679 >>, << 8125, 8125 >>, << 8127, 8129 >>,
    << 8141, 8143 >>, << 8157, 8159 >>, << 8173, 8175 >>, << 8189, 8190 >>, << 8203, 8207 >>,
    << 8216, 8217 >>, << 8228, 8228 >>, << 8231, 8231 >>, << 8234, 8238 >>, << 8288, 8292 >>,
    << 8294, 8303 >>, << 8305, 8305 >>, << 8319, 8319 >>, << 8336, 8348 >>, << 8400, 8432 >>,
    << 11388, 11389 >>, << 11503, 11505 >>, << 11631, 11631 >>, << 11647, 11647 >>, << 11744, 11775 >>,
    << 11823, 11823 >>, << 12293, 12293 >>, << 12330, 12333 >>, << 12337, 12341 >>, << 12347, 12347 >>,
    << 12441, 12446 >>, << 12540, 12542 >>, << 40981, 40981 >>, << 42232, 42237 >>, << 42508, 42508 >>,
    << 42607, 42610 >>, << 42612, 42621 >>, << 42623, 42623 >>, << 42652, 42655 >>, << 42736, 42737 >>,
    << 42752, 42785 >>, << 42864, 42864 >>, << 42888, 42890 >>, << 42993, 42996 >>, << 43000, 43001 >>,
    << 43010, 43010 >>, << 43014, 43014 >>, << 43019, 43019 >>, << 43045, 43046 >>, << 43052, 43052 >>,
    << 43204, 43205 >>, << 43232, 43249 >>, << 43263, 43263 >>, << 43302, 43309 >>, << 43335, 43345 >>,
    << 43392, 43394 >>, << 43443, 43443 >>, << 43446, 43449 >>, << 43452, 43453 >>, << 43471, 43471 >>,
    << 43493, 43494 >>, << 43561, 43566 >>, << 43569, 43570 >>, << 43573, 43574 >>, << 43587, 43587 >>,
    << 43596, 43596 >>, << 43632, 43632 >>, << 43644, 43644 >>, << 43696, 43696 >>, << 43698, 43700 >>,
    << 43703, 43704 >>, << 43710, 43711 >>, << 43713, 43713 >>, << 43741, 43741 >>, << 43756, 43757 >>,
    << 43763, 43764 >>, << 43766, 43766 >>, << 43867, 43871 >>, << 43881, 43883 >>, << 44005, 44005 >>,
    << 44008, 44008 >>, << 44013, 44013 >>, << 64286, 64286 >>, << 64434, 64450 >>, << 65024, 65039 >>,
    << 65043, 65043 >>, << 65056, 65071 >>, << 65106, 65106 >>, << 65109, 65109 >>, << 65279, 65279 >>,
    << 65287, 65287 >>, << 65294, 65294 >>, << 65306, 65306 >>, << 65342, 65342 >>, << 65344, 65344 >>,
    << 65392, 65392 >>, << 65438, 65439 >>, << 65507, 65507 >>, << 65529, 65531 >>, << 66045, 66045 >>,
    << 66272, 66272 >>, << 66422, 66426 >>, << 67456, 67461 >>, << 67463, 67504 >>, << 67506, 67514 >>,
    << 68097, 68099 >>, << 68101, 68102 >>, << 68108, 68111 >>, << 68152, 68154 >>, << 68159, 68159 >>,
    << 68325, 68326 >>, << 68900, 68903 >>, << 68942, 68942 >>, << 68969, 68973 >>, << 68975, 68975 >>,
    << 69291, 69292 >>, << 69317, 69317 >>, << 69370, 69375 >>, << 69446, 69456 >>, << 69506, 69509 >>,
    << 69633, 69633 >>, << 69688, 69702 >>, << 69744, 69744 >>, << 69747, 69748 >>, << 69759, 69761 >>,
    << 69811, 69814 >>, << 69817, 69818 >>, << 69821, 69821 >>, << 69826, 69826 >>, << 69837, 69837 >>,
    << 69888, 69890 >>, << 69927, 69931 >>, << 69933, 69940 >>, << 70003, 70003 >>, << 70016, 70017 >>,
    << 70070, 70078 >>, << 70089, 70092 >>, << 70095, 70095 >>, << 70191, 70193 >>, << 70196, 70196 >>,
    << 70198, 70199 >>, << 70206, 70206 >>, << 70209, 70209 >>, << 70367, 70367 >>, << 70371, 70378 >>,
    << 70400, 70401 >>, << 70459, 70460 >>, << 70464, 70464 >>, << 70502, 70508 >>, << 70512, 70516 >>,
    << 70587, 70592 >>, << 70606, 70606 >>, << 70608, 70608 >>, << 70610, 70610 >>, << 70625, 70626 >>,
    << 70712, 70719 >>, << 70722, 70724 >>, << 70726, 70726 >>, << 70750, 70750 >>, << 70835, 70840 >>,
    << 70842, 70842 >>, << 70847, 70848 >>, << 70850, 70851 >>, << 71090, 71093 >>, << 71100, 71101 >>,
    << 71103, 71104 >>, << 71132, 71133 >>, << 71219, 71226 >>, << 71229, 71229 >>, << 71231, 71232 >>,
    << 71339, 71339 >>, << 71341, 71341 >>, << 71344, 71349 >>, << 71351, 71351 >>, << 71453, 71453 >>,
    << 71455, 71455 >>, << 71458, 71461 >>, << 71463, 71467 >>, << 71727, 71735 >>, << 71737, 71738 >>,
    << 71995, 71996 >>, << 71998, 71998 >>, << 72003, 72003 >>, << 72148, 72151 >>, << 72154, 72155 >>,
    << 72160, 72160 >>, << 72193, 72202 >>, << 72243, 72248 >>, << 72251, 72254 >>, << 72263, 72263 >>,
    << 72273, 72278 >>, << 72281, 72283 >>, << 72330, 72342 >>, << 72344, 72345 >>, << 72544, 72544 >>,
    << 72546, 72548 >>, << 72550, 72550 >>, << 72752, 72758 >>, << 72760, 72765 >>, << 72767, 72767 >>,
    << 72850, 72871 >>, << 72874, 72880 >>, << 72882, 72883 >>, << 72885, 72886 >>, << 73009, 73014 >>,
    << 73018, 73018 >>, << 73020, 73021 >>, << 73023, 73029 >>, << 73031, 73031 >>, << 73104, 73105 >>,
    << 73109, 73109 >>, << 73111, 73111 >>, << 73177, 73177 >>, << 73459, 73460 >>, << 73472, 73473 >>,
    << 73526, 73530 >>, << 73536, 73536 >>, << 73538, 73538 >>, << 73562, 73562 >>, << 78896, 78912 >>,
    << 78919, 78933 >>, << 90398, 90409 >>, << 90413, 90415 >>, << 92912, 92916 >>, << 92976, 92982 >>,
    << 92992, 92995 >>, << 93504, 93506 >>, << 93547, 93548 >>, << 94031, 94031 >>, << 94095, 94111 >>,
    << 94176, 94177 >>, << 94179, 94180 >>, << 94194, 94195 >>, << 110576, 110579 >>, << 110581, 110587 >>,
    << 110589, 110590 >>, << 113821, 113822 >>, << 113824, 113827 >>, << 118528, 118573 >>, << 118576, 118598 >>,
    << 119143, 119145 >>, << 119155, 119170 >>, << 119173, 119179 >>, << 119210, 119213 >>, << 119362, 119364 >>,
    << 121344, 121398 >>, << 121403, 121452 >>, << 121461, 121461 >>, << 121476, 121476 >>, << 121499, 121503 >>,
    << 121505, 121519 >>, << 122880, 122886 >>, << 122888, 122904 >>, << 122907, 122913 >>, << 122915, 122916 >>,
    << 122918, 122922 >>, << 122928, 122989 >>, << 123023, 123023 >>, << 123184, 123197 >>, << 123566, 123566 >>,
    << 123628, 123631 >>, << 124139, 124143 >>, << 124398, 124399 >>, << 124643, 124643 >>, << 124646, 124646 >>,
    << 124654, 124655 >>, << 124661, 124661 >>, << 124671, 124671 >>, << 125136, 125142 >>, << 125252, 125259 >>,
    << 127995, 127999 >>, << 917505, 917505 >>, << 917536, 917631 >>, << 917760, 917999 >> }

\* The lower-case mapping of one code point, as String.prototype.toLowerCase
\* applies it out of context, in UTF-16: U+0130 is the one code point whose
\* mapping is not a single code point.
LowerCodePoint(c) ==
  IF c < 128 THEN (IF c \in 65..90 THEN << c + 32 >> ELSE << c >>)
  ELSE IF c = 304 THEN << 105, 775 >>
  ELSE LET rows == { r \in LowerTable : r[1] <= c /\ c <= r[2] /\ (c - r[1]) % r[3] = 0 }
       IN  IF rows = { } THEN Utf16(c) ELSE Utf16(c + (CHOOSE r \in rows : TRUE)[4])

\* Whether a code point is a cased letter.
Cased(c) == \E r \in CasedRanges : r[1] <= c /\ c <= r[2]

\* Whether a code point is case-ignorable.
CaseIgnorable(c) == \E r \in CaseIgnorableRanges : r[1] <= c /\ c <= r[2]

\* Whether the scan for a cased letter next to a sigma passes over the code
\* point at position k: case-ignorable code points are skipped before
\* anything else is asked of them.
SkippedAt(s, k) == CaseIgnorable(PointAt(s, k))

\* Whether the scan ends at position k on a cased letter.
CasedAt(s, k) == ~SkippedAt(s, k) /\ Cased(PointAt(s, k))

\* The Final_Sigma condition at position i: the first code point before it
\* that is not case-ignorable is a cased letter, and the first one after it
\* that is not case-ignorable, if any, is not.
FinalSigma(s, i) ==
  /\ \E j \in 1..(i - 1) :
       CasedAt(s, j) /\ \A k \in (j + 1)..(i - 1) : SkippedAt(s, k)
  /\ ~\E j \in (i + 1)..Len(s) :
       CasedAt(s, j) /\ \A k \in (i + 1)..(j - 1) : SkippedAt(s, k)

\* String.prototype.toLowerCase(): every code point's mapping, in order (a
\* surrogate pair is one code point, a lone surrogate is kept); a capital
\* sigma ending a word becomes the final sigma.
ToLowerCase(s) ==
  Concat([i \in 1..Len(s) |->
            IF i > 1 /\ PairAt(s, i - 1) THEN << >>
            ELSE IF s[i] = 931 /\ FinalSigma(s, i) THEN << 962 >>
            ELSE LowerCodePoint(PointAt(s, i))])

(***************************************************************************)
(* Results of a call that can throw: [ok |-> TRUE, val |-> v] or           *)
(* [ok |-> FALSE, err |-> name].                                           *)
(***************************************************************************)
Ok(v) == [ok |-> TRUE, val |-> v, err |-> "none"]

Throw(e) == [ok |-> FALSE, val |-> << >>, err |-> e]

(***************************************************************************)
(* decodeURIComponent                                                      *)
(***************************************************************************)
\* The value of a hexadecimal digit, -1 for any other code unit.
HexVal(c) ==
  IF c \in 48..57 THEN c - 48
  ELSE IF c \in 65..70 THEN c - 55
  ELSE IF c \in 97..102 THEN c - 87
  ELSE -1

\* The octet written %XY at 1-based position k of s, -1 when there is none.
OctetAt(s, k) ==
  IF k + 2 <= Len(s) /\ s[k] = Percent /\ HexVal(s[k + 1]) >= 0 /\ HexVal(s[k + 2]) >= 0
  THEN 16 * HexVal(s[k + 1]) + HexVal(s[k + 2])
  ELSE -1

\* The length of the UTF-8 sequence a lead octet opens, 0 for an invalid lead.
Utf8Len(b) ==
  IF b < 128 THEN 1
  ELSE IF b \in 194..223 THEN 2
  ELSE IF b \in 224..239 THEN 3
  ELSE IF b \in 240..244 THEN 4
  ELSE 0

\* Whether b is a UTF-8 continuation octet (10xxxxxx).
IsCont(b) == b \in 128..191

\* The code point of the n-octet sequence starting at position k, -1 when the
\* sequence is cut short, malformed, overlong, a surrogate or out of range.
CodePointAt(s, k, n) ==
  LET b0 == OctetAt(s, k)
      b1 == OctetAt(s, k + 3)
      b2 == OctetAt(s, k + 6)
      b3 == OctetAt(s, k + 9)
  IN  CASE n = 2 -> IF IsCont(b1) THEN (b0 - 192) * 64 + (b1 - 128) ELSE -1
        [] n = 3 ->
             IF IsCont(b1) /\ IsCont(b2)
             THEN LET cp == (b0 - 224) * 4096 + (b1 - 128) * 64 + (b2 - 128)
                  IN  IF cp >= 2048 /\ cp \notin 55296..57343 THEN cp ELSE -1
             ELSE -1
        [] n = 4 ->
             IF IsCont(b1) /\ IsCont(b2) /\ IsCont(b3)
             THEN LET cp == (b0 - 240) * 262144 + (b1 - 128) * 4096
                            + (b2 - 128) * 64 + (b3 - 128)
                  IN  IF cp \in 65536..1114111 THEN cp ELSE -1
             ELSE -1
        [] OTHER -> -1

RECURSIVE DecodeFrom(_, _, _)
\* Decoding of s from position k on, acc being the decoded text so far.
DecodeFrom(s, k, acc) ==
  IF k > Len(s) THEN Ok(acc)
  ELSE IF s[k] # Percent THEN DecodeFrom(s, k + 1, Append(acc, s[k]))
  ELSE LET b == OctetAt(s, k)
           n == IF b < 0 THEN 0 ELSE Utf8Len(b)
       IN  IF n = 0 THEN Throw("URIError")
           ELSE IF n = 1 THEN DecodeFrom(s, k + 3, Append(acc, b))
           ELSE LET cp == CodePointAt(s, k, n)
                IN  IF cp < 0 THEN Throw("URIError")
                    ELSE DecodeFrom(s, k + 3 * n, acc \o Utf16(cp))

\* decodeURIComponent(s): the decoded string, or URIError.
DecodeURIComponent(s) == DecodeFrom(s, 1, << >>)

(***************************************************************************)
(* _eliminateAllAfterCharacter and _urlToPath                              *)
(***************************************************************************)
\* Mutant of _eliminateAllAfterCharacter: the slice keeps the character found.
EliminateAfterCharacterOnly(string, character) ==
  LET index == IndexOf(string, character)
  IN  IF index < 0 THEN string ELSE Take(string, index + 1)

EliminateAllAfterCharacter(string, character) ==
  LET index == IndexOf(string, character)
  IN  IF index < 0 THEN string ELSE Take(string, index)

\* The number of characters sliced off as the scheme.
SchemeLength(isWin) == IF isWin THEN 8 ELSE 7

\* _urlToPath once the URL has been decoded.
PathOfDecoded(decoded, isWin) ==
  LET withoutScheme ==
        IF StartsWith(decoded, << Slash, Slash >>)
        THEN decoded
        ELSE Slice(decoded, SchemeLength(isWin))
      withoutQuerystring == EliminateAllAfterCharacter(withoutScheme, QuestionMark)
      withoutHash == EliminateAllAfterCharacter(withoutQuerystring, HashMark)
  IN  withoutHash

\* _urlToPath(targetUrl, { isWindows }): the path, or the URIError of the decoding.
UrlToPath(targetUrl, isWin) ==
  LET decoded == DecodeURIComponent(targetUrl)
  IN  IF decoded.ok THEN Ok(PathOfDecoded(decoded.val, isWin)) ELSE decoded

(***************************************************************************)
(* Node's path module (POSIX): normalize, isAbsolute, join, resolve        *)
(***************************************************************************)
RECURSIVE SplitFrom(_, _, _, _)
\* The segments of s between separators sep, from position k on; cur is the
\* segment being read.  Split("a//b") = << "a", "", "b" >>.
SplitFrom(s, sep, k, cur) ==
  IF k > Len(s) THEN << cur >>
  ELSE IF s[k] = sep THEN << cur >> \o SplitFrom(s, sep, k + 1, << >>)
  ELSE SplitFrom(s, sep, k + 1, Append(cur, s[k]))

Split(s, sep) == SplitFrom(s, sep, 1, << >>)

RECURSIVE JoinSegs(_, _)
\* The segments joined by sep.
JoinSegs(segs, sep) ==
  IF Len(segs) = 0 THEN << >>
  ELSE IF Len(segs) = 1 THEN segs[1]
  ELSE segs[1] \o << sep >> \o JoinSegs(Tail(segs), sep)

RECURSIVE NormalizeSegs(_, _, _)
\* normalizeString of lib/path.js on segments: empty and "." segments are
\* dropped; ".." removes the segment before it, and is kept (allowAboveRoot)
\* or dropped when there is none to remove.
NormalizeSegs(segs, allowAboveRoot, res) ==
  IF Len(segs) = 0 THEN res
  ELSE LET seg == Head(segs)
           dot == << Dot >>
           dotdot == << Dot, Dot >>
       IN  IF seg = << >> \/ seg = dot THEN NormalizeSegs(Tail(segs), allowAboveRoot, res)
           ELSE IF seg = dotdot
           THEN IF Len(res) > 0 /\ res[Len(res)] # dotdot
                THEN NormalizeSegs(Tail(segs), allowAboveRoot, SubSeq(res, 1, Len(res) - 1))
                ELSE IF allowAboveRoot
                THEN NormalizeSegs(Tail(segs), allowAboveRoot, Append(res, dotdot))
                ELSE NormalizeSegs(Tail(segs), allowAboveRoot, res)
           ELSE NormalizeSegs(Tail(segs), allowAboveRoot, Append(res, seg))

\* path.isAbsolute(path).
IsAbsolute(path) == Len(path) > 0 /\ path[1] = Slash

\* path.normalize(path).
Normalize(path) ==
  IF Len(path) = 0 THEN << Dot >>
  ELSE LET isAbs == path[1] = Slash
           trailingSeparator == path[Len(path)] = Slash
           body == JoinSegs(NormalizeSegs(Split(path, Slash), ~isAbs, << >>), Slash)
       IN  IF Len(body) = 0
           THEN IF isAbs THEN << Slash >>
                ELSE IF trailingSeparator THEN << Dot, Slash >>
                ELSE << Dot >>
           ELSE (IF isAbs THEN << Slash >> ELSE << >>)
                \o body
                \o (IF trailingSeparator THEN << Slash >> ELSE << >>)

\* path.join(a, b): the arguments that are not empty, joined by the separator
\* and normalized; "." when both are empty.
Join(a, b) ==
  LET joined == IF Len(a) = 0 THEN b
                ELSE IF Len(b) = 0 THEN a
                ELSE a \o << Slash >> \o b
  IN  IF Len(joined) = 0 THEN << Dot >> ELSE Normalize(joined)

\* The segments of path.resolve(from, to), from being absolute.
ResolveSegs(from, to) ==
  NormalizeSegs(Split(IF IsAbsolute(to) THEN to ELSE from \o << Slash >> \o to,
                      Slash), FALSE, << >>)

\* The absolute path made of segments.
PathOfSegs(segs) == << Slash >> \o JoinSegs(segs, Slash)

(***************************************************************************)
(* The file system: a function from the absolute paths of a fixed tree     *)
(* (as segments) to nodes.  The root directory is << >>.                   *)
(***************************************************************************)
\* ino is the inode number, which realpathSync reads of a symbolic link.
Dir == [kind |-> "dir", target |-> << >>, ino |-> 0]

File == [kind |-> "file", target |-> << >>, ino |-> 0]

Link(t) == [kind |-> "link", target |-> t, ino |-> 1]

None == [kind |-> "none", target |-> << >>, ino |-> 0]

\* The entry of the tree at the physical path segs: the node itself, None
\* when there is no such entry.  The names of a tree are well-formed strings.
Entry(f, segs) ==
  IF segs = << >> THEN Dir
  ELSE IF segs \in DOMAIN f THEN f[segs]
  ELSE None

\* The most symbolic links the kernel follows in one path resolution; the
\* next one fails with ELOOP.
MaxSymlinks == 40

\* The most bytes of one name in a directory.
NameMax == 255

\* The size of the kernel's buffer for a path, its final NUL included.
PathMax == 4096

\* U+FFFD, which the encoding to UTF-8 writes for a lone surrogate.
Replacement == << 65533 >>

\* The working directory of the process.
Cwd == Str(<< "/" >>)

\* The string as fs hands it to the kernel: encoded to UTF-8, a lone
\* surrogate becoming U+FFFD (and read back as UTF-16).
ToWellFormed(s) == [k \in 1..Len(s) |-> IF LoneAt(s, k) THEN Replacement[1] ELSE s[k]]

\* The names of the segments, as fs hands them to the kernel.
FsSegs(segs) == [k \in 1..Len(segs) |-> ToWellFormed(segs[k])]

\* The length of the string's encoding to UTF-8: one byte for a unit below
\* U+0080, two below U+0800 and for each half of a surrogate pair, three for
\* any other unit (a lone surrogate is written as U+FFFD).
ByteLength(s) ==
  Len(s)
  + Cardinality({ k \in 1..Len(s) : s[k] >= 128 })
  + Cardinality({ k \in 1..Len(s) : s[k] >= 2048 /\ (s[k] \notin 55296..57343 \/ LoneAt(s, k)) })

\* Whether the string holds a null character, which fs refuses before any
\* system call.
HasNull(s) == \E k \in 1..Len(s) : s[k] = 0

\* The error of looking up a name that is no entry of its directory.
NoEntry(name) == IF ByteLength(name) > NameMax THEN "ENAMETOOLONG" ELSE "ENOENT"

\* The directory the kernel has reached after the first k of the components
\* rest, from the directory cur, none of them a symbolic link: ".." is the
\* parent of the directory reached so far (the root is its own parent).
Reached(cur, rest, k) == NormalizeSegs(cur \o SubSeq(rest, 1, k), FALSE, << >>)

\* Whether the kernel cannot simply step from dir over the component name:
\* dir is no directory, or name is no entry of it, or is a symbolic link.
NameiStops(f, dir, name) ==
  \/ Entry(f, dir).kind # "dir"
  \/ /\ name \notin { << >>, << Dot >>, << Dot, Dot >> }
     /\ Entry(f, Append(dir, name)).kind \in { "none", "link" }

RECURSIVE NameiFirst(_, _, _, _)
\* The first component of rest, from the i-th on, that the kernel cannot step
\* over on its way from the directory cur; Len(rest) + 1 when there is none.
NameiFirst(f, cur, rest, i) ==
  IF i > Len(rest) THEN i
  ELSE IF NameiStops(f, Reached(cur, rest, i - 1), rest[i]) THEN i
  ELSE NameiFirst(f, cur, rest, i + 1)

\* The end of a pass of the resolution that stops at the k-th component of
\* rest, dir being the directory reached before it (past the last component,
\* the resolution is over): an error, or the symbolic link is to be followed,
\* from the directory holding it or from the root, when the limit allows it.
NameiStop(f, cur, rest, followed, k, dir) ==
  LET st == Entry(f, Append(dir, rest[k]))
      end(r) == [over |-> TRUE, res |-> r, cur |-> cur, rest |-> rest, followed |-> followed]
  IN  IF k > Len(rest) THEN end(Ok(dir))
      ELSE IF Entry(f, dir).kind # "dir" THEN end(Throw("ENOTDIR"))
      ELSE IF st.kind = "none" THEN end(Throw(NoEntry(rest[k])))
      ELSE IF followed = MaxSymlinks THEN end(Throw("ELOOP"))
      ELSE IF Len(st.target) = 0 THEN end(Throw("ENOENT"))
      ELSE [over |-> FALSE, res |-> Throw("ELOOP"),
            cur |-> IF IsAbsolute(st.target) THEN << >> ELSE dir,
            rest |-> Split(st.target, Slash) \o SubSeq(rest, k + 1, Len(rest)),
            followed |-> followed + 1]

\* One pass of the kernel's path resolution over the components rest from
\* the directory cur, as stat(2) does it, followed links having been
\* followed so far: every component is looked up in the directory reached,
\* down to the first that cannot be stepped over.
NameiPass(f, cur, rest, followed) ==
  LET k == NameiFirst(f, cur, rest, 1)
      dir == Reached(cur, rest, k - 1)
  IN  NameiStop(f, cur, rest, followed, k, dir)

RECURSIVE NameiLoop(_, _, _)
\* At most n passes of the resolution from the state w, stopping when it is
\* over (n passes are the passes of each half of n, one after the other).
\* The value is the set of the one state reached.
NameiLoop(f, w, n) ==
  IF w.over \/ n = 0 THEN { w }
  ELSE IF n = 1 THEN { NameiPass(f, w.cur, w.rest, w.followed) }
  ELSE UNION { NameiLoop(f, half, n - (n \div 2)) : half \in NameiLoop(f, w, n \div 2) }

\* The kernel's resolution of the components rest from the directory cur:
\* the entry reached (as segments), or the error.
Namei(f, cur, rest) ==
  LET start == [over |-> FALSE, res |-> Throw("ELOOP"), cur |-> cur, rest |-> rest,
                followed |-> 0]
  IN  CHOOSE r \in { w.res : w \in NameiLoop(f, start, MaxSymlinks + 1) } : TRUE

\* fs.statSync(path): the entry the kernel reaches (as segments), or the
\* error.  fs refuses a null character; the kernel, the empty path and a
\* path that does not fit its buffer.
StatSync(f, path) ==
  IF HasNull(path) THEN Throw("ERR_INVALID_ARG_VALUE")
  ELSE IF Len(path) = 0 THEN Throw("ENOENT")
  ELSE IF ByteLength(path) >= PathMax THEN Throw("ENAMETOOLONG")
  ELSE Namei(f, IF IsAbsolute(path) THEN << >> ELSE ResolveSegs(Cwd, << >>),
             Split(ToWellFormed(path), Slash))

\* fs.lstatSync(path): the entry the path names, a symbolic link itself when
\* the last component names one (the kernel follows the links of the
\* components before it, and the last one too when it is empty, "." or
\* ".."), or the error.
LstatSync(f, path) ==
  LET names == Split(ToWellFormed(path), Slash)
      last == names[Len(names)]
      dir == Namei(f, IF IsAbsolute(path) THEN << >> ELSE ResolveSegs(Cwd, << >>),
                   SubSeq(names, 1, Len(names) - 1))
      st == Entry(f, Append(dir.val, last))
      whole == StatSync(f, path)
  IN  IF HasNull(path) THEN Throw("ERR_INVALID_ARG_VALUE")
      ELSE IF Len(path) = 0 THEN Throw("ENOENT")
      ELSE IF ByteLength(path) >= PathMax THEN Throw("ENAMETOOLONG")
      ELSE IF last \in { << >>, << Dot >>, << Dot, Dot >> }
      THEN (IF whole.ok THEN Ok(Entry(f, whole.val)) ELSE whole)
      ELSE IF ~dir.ok THEN dir
      ELSE IF Entry(f, dir.val).kind # "dir" THEN Throw("ENOTDIR")
      ELSE IF st.kind = "none" THEN Throw(NoEntry(last))
      ELSE Ok(st)

\* fs.readlinkSync(path): the target of the symbolic link the path names, or
\* the error (EINVAL for an entry that is no link).
ReadlinkSync(f, path) ==
  LET st == LstatSync(f, path)
  IN  IF ~st.ok THEN st
      ELSE IF st.val.kind # "link" THEN Throw("EINVAL")
      ELSE Ok(st.val.target)

\* Whether lstatSync refuses the first i of the segments names as a path too
\* long for the kernel.
TooLong(names, i) == ByteLength(PathOfSegs(SubSeq(names, 1, i))) >= PathMax

RECURSIVE WalkFirst(_, _, _, _)
\* The first of the segments names, from the i-th on, at which realpathSync's
\* loop stops: lstatSync fails on the path up to it, or finds a symbolic link
\* (on a tree that does not change, every segment before it was found to be
\* no link, so that the kernel's walk to it is the entry's physical path).
\* long says whether the whole path is too long.  Len(names) + 1 when there
\* is none.
WalkFirst(f, names, i, long) ==
  IF i > Len(names) THEN i
  ELSE IF long /\ TooLong(names, i) THEN i
  ELSE IF Entry(f, SubSeq(names, 1, i)).kind \in { "none", "link" } THEN i
  ELSE WalkFirst(f, names, i + 1, long)

\* The end of a pass of the loop that stops at the k-th segment of rest (past
\* the last segment, the path is real), names being the segments as the
\* kernel reads them: a missing entry throws; a symbolic link is stat-ed (a
\* dangling or looping link throws), read and resolved as a string against
\* the directory holding it, and the loop is to start again from the root on
\* the path so made.  The loop counts nothing.  marks holds the links it
\* replaced with the number of segments then left after each, for as long as
\* none of these segments has been read; a link met again while its mark
\* stands is replaced again by the same segments, and so on for ever: the
\* call does not return ("diverges").
WalkStop(f, rest, names, k, marks) ==
  LET previous == SubSeq(rest, 1, k - 1)
      base == SubSeq(rest, 1, k)
      st == Entry(f, SubSeq(names, 1, k))
      linked == StatSync(f, PathOfSegs(base))
      left == Len(rest) - k
      standing == { m \in marks : m[2] <= left }
      end(r) == [over |-> TRUE, res |-> r, rest |-> rest, marks |-> marks]
  IN  IF k > Len(rest) THEN end(Ok(rest))
      ELSE IF TooLong(names, k) THEN end(Throw("ENAMETOOLONG"))
      ELSE IF st.kind = "none"
      THEN end(Throw(IF Entry(f, SubSeq(names, 1, k - 1)).kind = "file" THEN "ENOTDIR"
                     ELSE NoEntry(names[k])))
      ELSE IF ~linked.ok THEN end(Throw(linked.err))
      ELSE IF \E m \in standing : m[1] = base THEN end(Throw("diverges"))
      ELSE [over |-> FALSE, res |-> Throw("diverges"),
            rest |-> ResolveSegs(PathOfSegs(previous), st.target)
                     \o SubSeq(rest, k + 1, Len(rest)),
            marks |-> standing \cup { << base, left >> }]

\* One pass of the loop of fs.realpathSync over the segments rest of an
\* absolute path, on a tree that does not change meanwhile: every entry is
\* lstat-ed, down to the first that is missing or a symbolic link (knownHard
\* and seenLinks spare calls whose answers such a tree repeats).
WalkPass(f, rest, names, marks) ==
  WalkStop(f, rest, names, WalkFirst(f, names, 1, TooLong(names, Len(names))), marks)

RECURSIVE WalkLoop(_, _, _)
\* At most n passes of the loop from the state w, stopping when it is over
\* (n passes are the passes of each half of n, one after the other).  The
\* value is the set of the one state reached.
WalkLoop(f, w, n) ==
  IF w.over \/ n = 0 THEN { w }
  ELSE IF n = 1 THEN { WalkPass(f, w.rest, FsSegs(w.rest), w.marks) }
  ELSE UNION { WalkLoop(f, half, n - (n \div 2)) : half \in WalkLoop(f, w, n \div 2) }

RECURSIVE WalkRun(_, _, _)
\* The loop run from the state w to its end, n passes and then twice as many
\* at a time.
WalkRun(f, w, n) ==
  IF w.over THEN w.res
  ELSE WalkRun(f, CHOOSE v \in WalkLoop(f, w, n) : TRUE, 2 * n)

\* The loop of fs.realpathSync: the real path as segments, or the error.
Walk(f, rest) ==
  WalkRun(f, [over |-> FALSE, res |-> Throw("diverges"), rest |-> rest, marks |-> { }], 1)

\* fs.realpathSync(path) on a tree that does not change during the call: the
\* real absolute path, or the error thrown.  The path keeps the units it was
\* given: only the kernel reads them encoded.
RealpathSync(f, path) ==
  IF HasNull(path) THEN Throw("ERR_INVALID_ARG_VALUE")
  ELSE LET r == Walk(f, ResolveSegs(Cwd, path))
       IN  IF r.ok THEN Ok(PathOfSegs(r.val)) ELSE r

\* fs.existsSync(path): whether stat(path) succeeds; it never throws.
ExistsSync(f, path) == StatSync(f, path).ok

(***************************************************************************)
(* JSON.stringify({ path }) and the Response constructor                   *)
(***************************************************************************)
\* A lower-case hexadecimal digit.
HexDigit(n) == IF n < 10 THEN 48 + n ELSE 87 + n

\* One code unit of a string, not part of a surrogate pair, as JSON.stringify
\* quotes it.
QuoteUnit(c) ==
  CASE c = 34 -> Str(<< "\\", "\"" >>)
    [] c = 92 -> Str(<< "\\", "\\" >>)
    [] c = 8 -> Str(<< "\\", "b" >>)
    [] c = 9 -> Str(<< "\\", "t" >>)
    [] c = 10 -> Str(<< "\\", "n" >>)
    [] c = 12 -> Str(<< "\\", "f" >>)
    [] c = 13 -> Str(<< "\\", "r" >>)
    [] c < 32 /\ c \notin {8, 9, 10, 12, 13} ->
         Str(<< "\\", "u", "0", "0" >>) \o << HexDigit(c \div 16), HexDigit(c % 16) >>
    [] c \in 55296..57343 ->
         Str(<< "\\", "u" >>)
         \o << HexDigit(c \div 4096), HexDigit((c \div 256) % 16),
               HexDigit((c \div 16) % 16), HexDigit(c % 16) >>
    [] OTHER -> << c >>

RECURSIVE QuoteFrom(_, _)
\* The string from position k on, quoted: a surrogate pair is kept, every
\* other unit is quoted on its own (a lone surrogate as an escape).
QuoteFrom(s, k) ==
  IF k > Len(s) THEN << >>
  ELSE IF PairAt(s, k) THEN << s[k], s[k + 1] >> \o QuoteFrom(s, k + 2)
  ELSE QuoteUnit(s[k]) \o QuoteFrom(s, k + 1)

\* JSON.stringify({ path: realPath }).
JsonOpen == Str(<< "{", "\"", "p", "a", "t", "h", "\"", ":", "\"" >>)

JsonClose == Str(<< "\"", "}" >>)

JsonStringifyPath(realPath) == JsonOpen \o QuoteFrom(realPath, 1) \o JsonClose

\* What the handler hands back to its caller: a Response it returned, or an
\* exception it let escape.
NoOutcome == [kind |-> "none", status |-> 0, hasBody |-> FALSE, body |-> << >>, error |-> "none"]

Returned(status, hasBody, body) ==
  [kind |-> "response", status |-> status, hasBody |-> hasBody, body |-> body, error |-> "none"]

\* The handler never returning: realpathSync's loop does not end.
Hung == [kind |-> "hang", status |-> 0, hasBody |-> FALSE, body |-> << >>, error |-> "none"]

\* An exception leaving the handler; status is the one the failed constructor was given.
Escaped(e, status) ==
  [kind |-> "throw", status |-> status, hasBody |-> FALSE, body |-> << >>, error |-> e]

\* The statuses of a response that has no body.
NullBodyStatus == { 101, 103, 204, 205, 304 }

\* new Response(body, { status }): the Fetch constructor throws a RangeError
\* for a status outside 200..599, and a TypeError for a body given with a
\* null body status.
NewResponse(hasBody, body, status) ==
  IF status \notin 200..599
  THEN [ok |-> FALSE, val |-> Escaped("RangeError", status), err |-> "RangeError"]
  ELSE IF hasBody /\ status \in NullBodyStatus
  THEN [ok |-> FALSE, val |-> Escaped("TypeError", status), err |-> "TypeError"]
  ELSE [ok |-> TRUE, val |-> Returned(status, hasBody, body), err |-> "none"]

(***************************************************************************)
(* The allowed roots                                                       *)
(***************************************************************************)
UserDataPath == Str(<< "/", "r" >>)

InstallPath == Str(<< "/", "I" >>)

GetAvatarsPath(userDataPath) == Join(userDataPath, Str(<< "a", "v", "a", "t", "a", "r", "s" >>))

GetBadgesPath(userDataPath) == Join(userDataPath, Str(<< "b", "a", "d", "g", "e", "s" >>))

GetDraftPath(userDataPath) == Join(userDataPath, Str(<< "d", "r", "a", "f", "t", "s" >>))

GetPath(userDataPath) ==
  Join(userDataPath, Str(<< "a", "t", "t", "a", "c", "h", "m", "e", "n", "t", "s" >>))

GetStickersPath(userDataPath) ==
  Join(userDataPath, Str(<< "s", "t", "i", "c", "k", "e", "r", "s" >>))

GetTempPath(userDataPath) == Join(userDataPath, Str(<< "t", "e", "m", "p" >>))

GetUpdateCachePath(userDataPath) ==
  Join(userDataPath, Str(<< "u", "p", "d", "a", "t", "e", "-", "c", "a", "c", "h", "e" >>))

AllowedRoots ==
  << UserDataPath,
     InstallPath,
     GetAvatarsPath(UserDataPath),
     GetBadgesPath(UserDataPath),
     GetDraftPath(UserDataPath),
     GetPath(UserDataPath),
     GetStickersPath(UserDataPath),
     GetTempPath(UserDataPath),
     GetUpdateCachePath(UserDataPath) >>

(***************************************************************************)
(* The handler's try block after the real path is known, and its catch     *)
(***************************************************************************)
\* The status of an "invalid URL" denial.
InvalidUrl == -300

\* The status of an "access denied" denial.
AccessDenied == -10

\* The status of a Response constructed without one.
DefaultStatus == 200

\* Mutant of ProperCasing: the path is lower-cased on every platform.
ProperCasingAlways(realPath, isWin) == ToLowerCase(realPath)

\* realPath lower-cased on Windows.
ProperCasing(realPath, isWin) == IF isWin THEN ToLowerCase(realPath) ELSE realPath

\* root.toLowerCase() for every allowed root, in order.
LowerRoots == [i \in 1..Len(AllowedRoots) |-> ToLowerCase(AllowedRoots[i])]

\* The test of the loop over allowedRoots for the i-th root.
RootMatches(properCasing, i, isWin) ==
  StartsWith(properCasing, IF isWin THEN LowerRoots[i] ELSE AllowedRoots[i])

\* Whether the loop over allowedRoots returns.
SomeRootMatches(properCasing, isWin) ==
  \E i \in 1..Len(AllowedRoots) : RootMatches(properCasing, i, isWin)

\* The path a successful response carries.
ResponsePath(realPath, properCasing) == realPath

\* Lines 86..107 for a real path: the Response returned or the exception
\* thrown inside the try block, and the warning logged.
Validate(realPath, isWin) ==
  LET properCasing == ProperCasing(realPath, isWin)
  IN  IF ~IsAbsolute(realPath)
      THEN [res |-> NewResponse(FALSE, << >>, AccessDenied), log |-> << "non-absolute" >>]
      ELSE IF SomeRootMatches(properCasing, isWin)
      THEN [res |-> NewResponse(TRUE, JsonStringifyPath(ResponsePath(realPath, properCasing)),
                                DefaultStatus),
            log |-> << >>]
      ELSE [res |-> NewResponse(FALSE, << >>, AccessDenied), log |-> << "denied-path" >>]

\* The catch block (lines 108..118): it logs, and constructs the denial.
Catch(err) == [res |-> NewResponse(FALSE, << >>, AccessDenied), log |-> << "error" >>]

\* A try block's result passed through the catch: res is what leaves the handler.
ThroughCatch(try) ==
  IF try.res.ok THEN [res |-> try.res.val, log |-> try.log, caught |-> FALSE]
  ELSE LET c == Catch(try.res.err)
       IN  [res |-> c.res.val, log |-> try.log \o c.log, caught |-> TRUE]

\* Lines 84..118 once existsSync has answered, on a tree that does not change
\* meanwhile: realpathSync or the target itself, the validation, and the
\* catch around both.
Resolve(f, target, exists, isWin) ==
  LET real == IF exists THEN RealpathSync(f, target) ELSE Ok(target)
  IN  IF real.ok
      THEN [real |-> real] @@ ThroughCatch(Validate(real.val, isWin))
      ELSE IF real.err = "diverges"
      THEN [real |-> real, res |-> Hung, log |-> << >>, caught |-> FALSE]
      ELSE [real |-> real] @@ ThroughCatch([res |-> real, log |-> << >>])

(***************************************************************************)
(* Requests and file trees the model ranges over                           *)
(***************************************************************************)
\* The most path segments of a generated URL.
MaxSegs == 2

\* Segment names: the two roots, a case variant of one, a sibling whose name
\* extends a root's, the link, a file, and the parent directory.
Segs ==
  { Str(<< "r" >>), Str(<< "R" >>), Str(<< "r", "e" >>), Str(<< "I" >>),
    Str(<< "l" >>), Str(<< "x" >>), Str(<< ".", "." >>) }

\* What a URL starts with: the scheme with two or three slashes, a bare
\* slash (with the path's own, a UNC start) or nothing.
Prefixes ==
  { Str(<< "f", "i", "l", "e", ":", "/", "/" >>),
    Str(<< "f", "i", "l", "e", ":", "/", "/", "/" >>),
    Str(<< "/" >>),
    << >> }

\* A string of one high surrogate, with no low surrogate after it.
LoneSurrogate == << 55296 >>

\* What follows the path: nothing, a query and fragment, an encoded question
\* mark, an encoded quote and a lone surrogate, a further segment named
\* U+0130 (two octets, and two units once lower-cased), a query with a
\* cut-off escape.
Suffixes ==
  { << >>,
    Str(<< "?", "a", "#", "b" >>),
    Str(<< "%", "3", "F", "a" >>),
    Str(<< "%", "2", "2" >>) \o LoneSurrogate,
    Str(<< "/", "%", "C", "4", "%", "B", "0" >>),
    Str(<< "?", "%" >>) }

\* "/" before each segment.
SlashPath(segs) ==
  IF Len(segs) = 0 THEN << >> ELSE << Slash >> \o JoinSegs(segs, Slash)

SegSeqs == UNION { [1..n -> Segs] : n \in 0..MaxSegs }

Urls == { p \o SlashPath(q) \o s : p \in Prefixes, q \in SegSeqs, s \in Suffixes }

\* request.url: absent, empty, or a URL.
Requests ==
  { [hasUrl |-> FALSE, url |-> << >>], [hasUrl |-> TRUE, url |-> << >>] }
  \cup { [hasUrl |-> TRUE, url |-> u] : u \in Urls }

\* The entry /r/l, the one entry that varies.
LinkPath == << Str(<< "r" >>), Str(<< "l" >>) >>

\* The name a request ending in a quote and a lone surrogate reaches: the
\* kernel is handed U+FFFD for the surrogate.
QuotedName == Str(<< "x", "\"" >>) \o Replacement

\* The tree: /r and /I are the roots' directories, /re a sibling of /r, /x and
\* /l files outside every root, /r/s a link to the directory /I.
Tree(l) ==
  (<< Str(<< "r" >>) >> :> Dir)
  @@ (<< Str(<< "r" >>), Str(<< "x" >>) >> :> File)
  @@ (<< Str(<< "r" >>), QuotedName >> :> File)
  @@ (<< Str(<< "r" >>), Str(<< "s" >>) >> :> [Link(Str(<< "/", "I" >>)) EXCEPT !.ino = 3])
  @@ (<< Str(<< "l" >>) >> :> File)
  @@ (LinkPath :> l)
  @@ (<< Str(<< "r", "e" >>) >> :> Dir)
  @@ (<< Str(<< "r", "e" >>), Str(<< "x" >>) >> :> File)
  @@ (<< Str(<< "I" >>) >> :> Dir)
  @@ (<< Str(<< "I" >>), Str(<< "x" >>) >> :> File)
  @@ (<< Str(<< "x" >>) >> :> File)

\* A link target outside every root.
OutsideTarget == Str(<< "/", "x" >>)

\* A link target the kernel resolves through /r/s and the parent of /I to the
\* file /l, and path.resolve, as a string, to /r/l itself.
ThroughTarget == Str(<< "s", "/", ".", ".", "/", "l" >>)

\* What /r/l is at the start: a file, a link out of the roots, a link to the
\* sibling /re/x, a relative link to /r/x, a link that realpathSync resolves to
\* itself, or nothing.
LinkInits ==
  { File, Link(OutsideTarget), Link(Str(<< ".", ".", "/", "r", "e", "/", "x" >>)),
    Link(Str(<< "x" >>)), Link(ThroughTarget), None }

\* The trees a run may start on.
Trees == { Tree(l) : l \in LinkInits }

(***************************************************************************)
(* The handler as a state machine                                          *)
(***************************************************************************)
VARIABLES
  request,     \* the request: hasUrl, url
  isWindows,   \* the platform flag the handler was created with
  fs,          \* the file tree
  pc,          \* where the handler is: start, normalized, checked, walking,
               \* linked, statted, resolved, done
  targetPath,  \* _urlToPath's result
  target,      \* normalize(targetPath)
  exists,      \* existsSync(target)'s answer
  walk,        \* realpathSync's locals: p, pos, knownHard, seenLinks, ino
  realPath,    \* realpathSync(target) or target: a result that may be an error
  outcome,     \* what left the handler
  log,         \* the warnings logged
  stages,      \* the stages run, in order
  raced        \* whether the tree changed after existsSync read it

vars ==
  << request, isWindows, fs, pc, targetPath, target, exists, walk, realPath, outcome, log,
     stages, raced >>

Unset == Throw("unset")

\* realpathSync's locals before the call: p is the path as segments, pos the
\* number of its segments the current pass is past, knownHard the paths found
\* to be no links, seenLinks the targets read, by inode, ino the inode of the
\* link being read.
Idle == [p |-> << >>, pos |-> 0, knownHard |-> { }, seenLinks |-> { }, ino |-> 0]

Init ==
  /\ request \in Requests
  /\ isWindows \in BOOLEAN
  /\ fs \in Trees
  /\ pc = "start"
  /\ targetPath = << >>
  /\ target = << >>
  /\ exists = FALSE
  /\ walk = Idle
  /\ realPath = Unset
  /\ outcome = NoOutcome
  /\ log = << >>
  /\ stages = << >>
  /\ raced = FALSE

\* !request.url
NoUrl(req) == ~req.hasUrl \/ Len(req.url) = 0

\* Lines 70..75: a request without a URL; the Response is constructed outside
\* the try block.
RejectNoUrl ==
  /\ pc = "start"
  /\ NoUrl(request)
  /\ outcome' = NewResponse(FALSE, << >>, InvalidUrl).val
  /\ pc' = "done"
  /\ UNCHANGED << request, isWindows, fs, targetPath, target, exists, walk, realPath, log,
                  stages, raced >>

\* Lines 78..81: _urlToPath and normalize; a URIError goes to the catch block.
DecodeAndNormalize ==
  /\ pc = "start"
  /\ ~NoUrl(request)
  /\ LET p == UrlToPath(request.url, isWindows)
     IN  IF p.ok
         THEN /\ targetPath' = p.val
              /\ target' = Normalize(p.val)
              /\ stages' = stages \o << "decode", "normalize" >>
              /\ pc' = "normalized"
              /\ UNCHANGED << outcome, log >>
         ELSE LET c == ThroughCatch([res |-> p, log |-> << >>])
              IN  /\ outcome' = c.res
                  /\ log' = log \o c.log
                  /\ stages' = stages \o << "decode", "catch" >>
                  /\ pc' = "done"
                  /\ UNCHANGED << targetPath, target >>
  /\ UNCHANGED << request, isWindows, fs, exists, walk, realPath, raced >>

\* Line 84, the condition: existsSync(target), one stat of the kernel.
CheckExists ==
  /\ pc = "normalized"
  /\ exists' = ExistsSync(fs, target)
  /\ stages' = Append(stages, "exists")
  /\ pc' = "checked"
  /\ UNCHANGED << request, isWindows, fs, targetPath, target, walk, realPath, outcome, log,
                  raced >>

\* Line 84, the path did not exist: realPath is the target itself.
KeepTarget ==
  /\ pc = "checked"
  /\ ~exists
  /\ realPath' = Ok(target)
  /\ pc' = "resolved"
  /\ UNCHANGED << request, isWindows, fs, targetPath, target, exists, walk, outcome, log,
                  stages, raced >>

\* Line 84, the path existed: realpathSync(target) starts.  It validates the
\* path, makes it absolute, and has nothing known yet.
BeginRealpath ==
  /\ pc = "checked"
  /\ exists
  /\ stages' = Append(stages, "realpath")
  /\ IF HasNull(target)
     THEN /\ realPath' = Throw("ERR_INVALID_ARG_VALUE")
          /\ pc' = "resolved"
          /\ UNCHANGED walk
     ELSE /\ walk' = [Idle EXCEPT !.p = ResolveSegs(Cwd, target)]
          /\ pc' = "walking"
          /\ UNCHANGED realPath
  /\ UNCHANGED << request, isWindows, fs, targetPath, target, exists, outcome, log, raced >>

\* The number of segments of w.p up to the first, after the pos-th, whose
\* path is not in knownHard; Len(w.p) + 1 when every path is.
NextUnknown(w) ==
  LET unknown == { i \in (w.pos + 1)..Len(w.p) : SubSeq(w.p, 1, i) \notin w.knownHard }
  IN  IF unknown = { } THEN Len(w.p) + 1
      ELSE CHOOSE i \in unknown : \A j \in unknown : i <= j

\* The target seenLinks holds for the inode; << >> (no link has that target)
\* when it holds none.
SeenTarget(w, ino) ==
  IF \E e \in w.seenLinks : e[1] = ino
  THEN (CHOOSE e \in w.seenLinks : e[1] = ino)[2]
  ELSE << >>

\* realpathSync's locals once the link whose path is the first k segments of
\* p has been read as linkTarget, its inode being ino: the target is kept by
\* inode, the link is replaced in the path by the target resolved as a string
\* against the directory holding it, and the loop starts again at the root.
Restarted(w, k, linkTarget, ino) ==
  [w EXCEPT !.p = ResolveSegs(PathOfSegs(SubSeq(w.p, 1, k - 1)), linkTarget)
                  \o SubSeq(w.p, k + 1, Len(w.p)),
            !.pos = 0,
            !.seenLinks = { e \in w.seenLinks : e[1] # ino } \cup { << ino, linkTarget >> },
            !.ino = 0]

\* The loop of realpathSync as far as its next system call, and that call:
\* paths in knownHard are passed over; past the last segment the call returns
\* p; else the path is lstat-ed: a failure throws, an entry that is no link
\* joins knownHard, a link whose inode is in seenLinks is replaced by the
\* target kept, and any other link is to be stat-ed.
WalkLstat ==
  /\ pc = "walking"
  /\ LET k == NextUnknown(walk)
         base == SubSeq(walk.p, 1, k)
     IN  IF k > Len(walk.p)
         THEN /\ realPath' = Ok(PathOfSegs(walk.p))
              /\ pc' = "resolved"
              /\ UNCHANGED walk
         ELSE \E st \in { LstatSync(fs, PathOfSegs(base)) } :
                IF ~st.ok
                THEN /\ realPath' = st
                     /\ pc' = "resolved"
                     /\ UNCHANGED walk
                ELSE IF st.val.kind # "link"
                THEN /\ walk' = [walk EXCEPT !.pos = k, !.knownHard = @ \cup { base }]
                     /\ UNCHANGED << pc, realPath >>
                ELSE IF \E e \in walk.seenLinks : e[1] = st.val.ino
                THEN /\ walk' = Restarted(walk, k, SeenTarget(walk, st.val.ino), st.val.ino)
                     /\ UNCHANGED << pc, realPath >>
                ELSE /\ walk' = [walk EXCEPT !.pos = k - 1, !.ino = st.val.ino]
                     /\ pc' = "linked"
                     /\ UNCHANGED realPath
  /\ UNCHANGED << request, isWindows, fs, targetPath, target, exists, outcome, log, stages,
                  raced >>

\* The path of the link realpathSync is reading.
LinkBase == PathOfSegs(SubSeq(walk.p, 1, walk.pos + 1))

\* fs.statSync(base) of realpathSync: a link that leads nowhere throws.
WalkStat ==
  /\ pc = "linked"
  /\ \E st \in { StatSync(fs, LinkBase) } :
       IF st.ok
       THEN pc' = "statted" /\ UNCHANGED realPath
       ELSE pc' = "resolved" /\ realPath' = st
  /\ UNCHANGED << request, isWindows, fs, targetPath, target, exists, walk, outcome, log,
                  stages, raced >>

\* fs.readlinkSync(base) of realpathSync, and the restart of the loop.
WalkReadlink ==
  /\ pc = "statted"
  /\ \E linkTarget \in { ReadlinkSync(fs, LinkBase) } :
       IF linkTarget.ok
       THEN /\ walk' = Restarted(walk, walk.pos + 1, linkTarget.val, walk.ino)
            /\ pc' = "walking"
            /\ UNCHANGED realPath
       ELSE /\ realPath' = linkTarget
            /\ pc' = "resolved"
            /\ UNCHANGED walk
  /\ UNCHANGED << request, isWindows, fs, targetPath, target, exists, outcome, log, stages,
                  raced >>

\* Lines 86..118 once realPath is known or realpathSync has thrown: the
\* checks, the response, the catch block.  No call reads the tree.
Respond ==
  /\ pc = "resolved"
  /\ \E r \in { ThroughCatch(IF realPath.ok THEN Validate(realPath.val, isWindows)
                             ELSE [res |-> realPath, log |-> << >>]) } :
       /\ outcome' = r.res
       /\ log' = log \o r.log
       /\ stages' = stages
                    \o (IF realPath.ok THEN << "validate" >> ELSE << >>)
                    \o (IF r.caught THEN << "catch" >> ELSE << >>)
  /\ pc' = "done"
  /\ UNCHANGED << request, isWindows, fs, targetPath, target, exists, walk, realPath, raced >>

\* The handler has called existsSync and has not returned: what another
\* process does to the tree now, the run may or may not read (a change before
\* existsSync is a different tree at the start).
Running == pc \in { "checked", "walking", "linked", "statted", "resolved" }

\* The inode numbers a link made at /r/l may get.
LinkInos == { 1, 2 }

\* Another process removes /r/l.
FsUnlink ==
  /\ Running
  /\ fs[LinkPath].kind # "none"
  /\ fs' = [fs EXCEPT ![LinkPath] = None]
  /\ raced' = TRUE
  /\ UNCHANGED << request, isWindows, pc, targetPath, target, exists, walk, realPath, outcome,
                  log, stages >>

\* Another process puts a link out of the roots at /r/l, in the place of the
\* entry there (the new inode is not the one replaced) or where there is none
\* (the inode may be one that was freed before).
FsSymlink ==
  /\ Running
  /\ ~(fs[LinkPath].kind = "link" /\ fs[LinkPath].target = OutsideTarget)
  /\ \E i \in LinkInos :
       /\ fs[LinkPath].kind # "none" => i # fs[LinkPath].ino
       /\ fs' = [fs EXCEPT ![LinkPath] = [Link(OutsideTarget) EXCEPT !.ino = i]]
  /\ raced' = TRUE
  /\ UNCHANGED << request, isWindows, pc, targetPath, target, exists, walk, realPath, outcome,
                  log, stages >>

Next ==
  \/ RejectNoUrl
  \/ DecodeAndNormalize
  \/ CheckExists
  \/ KeepTarget
  \/ BeginRealpath
  \/ WalkLstat
  \/ WalkStat
  \/ WalkReadlink
  \/ Respond
  \/ FsUnlink
  \/ FsSymlink

Spec == Init /\ [][Next]_vars

\* The handler run to its end on one tree, with no step of another process in
\* between: what leaves it (Hung when it never ends).
HandlerOn(req, isWin, f) ==
  IF NoUrl(req) THEN NewResponse(FALSE, << >>, InvalidUrl).val
  ELSE LET p == UrlToPath(req.url, isWin)
       IN  IF ~p.ok THEN ThroughCatch([res |-> p, log |-> << >>]).res
           ELSE Resolve(f, Normalize(p.val), ExistsSync(f, Normalize(p.val)), isWin).res

(***************************************************************************)
(* Vocabulary of the properties                                            *)
(***************************************************************************)
Done == pc = "done"

\* The handler returned a Response with a body and the default status.
Allowed == outcome.kind = "response" /\ outcome.hasBody /\ outcome.status = DefaultStatus

\* The handler returned a Response without a body whose status is code.
Denied(code) == outcome.kind = "response" /\ ~outcome.hasBody /\ outcome.status = code

\* path is root or an entry below it (root has no trailing separator).
Inside(path, root) == path = root \/ StartsWith(path, root \o << Slash >>)

\* path is inside some allowed root.
InsideSomeRoot(path) == \E i \in 1..Len(AllowedRoots) : Inside(path, AllowedRoots[i])

\* The same, letter case ignored.
InsideSomeRootAnyCase(path) ==
  \E i \in 1..Len(AllowedRoots) : Inside(ToLowerCase(path), LowerRoots[i])

\* The value of the four hexadecimal digits at positions k..k+3.
Hex4(s, k) ==
  4096 * HexVal(s[k]) + 256 * HexVal(s[k + 1]) + 16 * HexVal(s[k + 2]) + HexVal(s[k + 3])

RECURSIVE UnquoteFrom(_, _)
\* JSON.parse of the inside of a string literal, from position k on.
UnquoteFrom(s, k) ==
  IF k > Len(s) THEN << >>
  ELSE IF s[k] # Code("\\") THEN << s[k] >> \o UnquoteFrom(s, k + 1)
  ELSE IF s[k + 1] = Code("u") THEN << Hex4(s, k + 2) >> \o UnquoteFrom(s, k + 6)
  ELSE << CASE s[k + 1] = Code("b") -> 8
            [] s[k + 1] = Code("t") -> 9
            [] s[k + 1] = Code("n") -> 10
            [] s[k + 1] = Code("f") -> 12
            [] s[k + 1] = Code("r") -> 13
            [] OTHER -> s[k + 1] >> \o UnquoteFrom(s, k + 2)

\* JSON.parse(body).path for a body of the form {"path":"..."}; << 0 >> (no
\* path is that) for any other body.
JsonParsePath(body) ==
  IF /\ Len(body) >= Len(JsonOpen) + Len(JsonClose)
     /\ StartsWith(body, JsonOpen)
     /\ SubSeq(body, Len(body) - Len(JsonClose) + 1, Len(body)) = JsonClose
  THEN UnquoteFrom(SubSeq(body, Len(JsonOpen) + 1, Len(body) - Len(JsonClose)), 1)
  ELSE << 0 >>

\* The stages run so far, as a set.
StagesRun == { stages[i] : i \in 1..Len(stages) }

\* A finished run that no other process disturbed ends as HandlerOn says.
AtomicRun == (Done /\ ~raced) => outcome = HandlerOn(request, isWindows, fs)

(***************************************************************************)
(* C4                                                                      *)
(***************************************************************************)
\* C4: when the canonicalized path (the normalized target, or what
\* realpathSync returned for it when existsSync said it exists) is an allowed
\* root or lies under one, the handler returns a Response with the default
\* status whose body parses to exactly that path; and when no other process
\* changed the tree during the run, that path is the real path of the
\* target on the tree.
C4_InsideRootAllowed ==
  (Done /\ realPath.ok /\ InsideSomeRoot(realPath.val)) =>
    /\ Allowed
    /\ JsonParsePath(outcome.body) = realPath.val
    /\ ~raced => realPath.val = (IF exists THEN RealpathSync(fs, target).val ELSE target)

\* C4 witness: an allowed request whose path went through the link /r/l to
\* another entry under the root.
C4_Witness ==
  /\ Done /\ realPath.ok /\ exists /\ ~raced
  /\ InsideSomeRoot(realPath.val)
  /\ realPath.val # target
  /\ Allowed

(***************************************************************************)
(* C5                                                                      *)
(***************************************************************************)
\* The places where the request's URL splits into u and a suffix s that
\* begins with "?" or "#".
Splits == { k \in 1..Len(request.url) : request.url[k] \in { QuestionMark, HashMark } }

\* The request for the part of the URL before position k.
Before(k) == [hasUrl |-> TRUE, url |-> Take(request.url, k - 1)]

\* u decoded starts with "//" or is at least as long as the scheme sliced off.
HasScheme(u, isWin) ==
  LET d == DecodeURIComponent(u)
  IN  d.ok /\ (StartsWith(d.val, << Slash, Slash >>) \/ Len(d.val) >= SchemeLength(isWin))

\* s has neither "?" nor "#".
Stripped(s) == \A i \in 1..Len(s) : s[i] \notin { QuestionMark, HashMark }

\* C5 as stated: for every URL u and every suffix s beginning with "?" or "#",
\* _urlToPath(u + s) = _urlToPath(u), the handler decides u + s as it decides
\* u, and a returned path has no "?" and no "#".
C5_Original ==
  /\ \A k \in Splits :
       /\ UrlToPath(request.url, isWindows) = UrlToPath(Before(k).url, isWindows)
       /\ HandlerOn(request, isWindows, fs) = HandlerOn(Before(k), isWindows, fs)
  /\ "normalize" \in StagesRun => Stripped(targetPath)

\* C5, amended: the same for every u that, decoded, starts with "//" or is at
\* least as long as the scheme sliced off (7 characters, 8 on Windows), and
\* every s beginning with "?" or "#" such that u + s percent-decodes without
\* error.  The functions are compared on every request as it arrives; of the
\* run itself: the path _urlToPath returned to the handler is the path of u,
\* and a run no other process disturbed ends as the handler ends on u.
C5_QueryAndFragmentStripped ==
  /\ \A k \in Splits :
       (DecodeURIComponent(request.url).ok /\ HasScheme(Before(k).url, isWindows)) =>
         /\ pc = "start" =>
              /\ UrlToPath(request.url, isWindows) = UrlToPath(Before(k).url, isWindows)
              /\ HandlerOn(request, isWindows, fs) = HandlerOn(Before(k), isWindows, fs)
         /\ pc = "normalized" => targetPath = UrlToPath(Before(k).url, isWindows).val
         /\ (Done /\ ~raced) => outcome = HandlerOn(Before(k), isWindows, fs)
  /\ "normalize" \in StagesRun => Stripped(targetPath)

\* C5 witness: a finished, allowed request whose URL carried a query and a
\* fragment after a path with its scheme.
C5_Witness ==
  /\ Done /\ Allowed
  /\ \E k \in Splits :
       /\ request.url[k] = QuestionMark
       /\ \E j \in Splits : j > k /\ request.url[j] = HashMark
       /\ HasScheme(Before(k).url, isWindows)
       /\ targetPath = UrlToPath(Before(k).url, isWindows).val

(***************************************************************************)
(* What the handler does as written                                        *)
(***************************************************************************)
\* path is inside some allowed root, as the platform compares names.
InsideAsPlatform(path) ==
  IF isWindows THEN InsideSomeRootAnyCase(path) ELSE InsideSomeRoot(path)

\* The target made absolute, before any link is followed.
AbsoluteTarget == PathOfSegs(ResolveSegs(Cwd, target))

\* An exception was raised by the decoding or by realpathSync.
StageRaised ==
  \/ ~NoUrl(request) /\ ~UrlToPath(request.url, isWindows).ok
  \/ realPath.err \in { "ENOENT", "ENOTDIR", "ELOOP", "ENAMETOOLONG", "ERR_INVALID_ARG_VALUE" }

\* An allowed response carries an absolute real path that starts, as a
\* string, with an allowed root.
AllowedOnlyIfPrefixed ==
  (Done /\ Allowed) =>
    /\ realPath.ok
    /\ IsAbsolute(realPath.val)
    /\ SomeRootMatches(ProperCasing(realPath.val, isWindows), isWindows)
    /\ JsonParsePath(outcome.body) = realPath.val

\* Every run that is not allowed ends with the RangeError of the Response
\* constructor leaving the handler: no denial is ever returned.
DenialsEscape ==
  (Done /\ ~Allowed) => outcome.kind = "throw" /\ outcome.error = "RangeError"

\* An exception raised by a stage never ends in an allowed response.
StageErrorNeverAllowed == (Done /\ StageRaised) => ~Allowed

(***************************************************************************)
(* C1                                                                      *)
(***************************************************************************)
\* C1: the handler returns Allowed only if the resolved path is an allowed
\* root or an entry below one (letter case ignored on Windows).  This is the
\* claim's safety half; C1_OutsideDenied is its other half.
C1_Original == (Done /\ Allowed) => (realPath.ok /\ InsideAsPlatform(realPath.val))

\* The other half of C1: a request whose decoded, normalized path, and the
\* path it resolves to, lie outside every allowed root is Denied with -10.
C1_OutsideDenied ==
  (Done /\ realPath.ok /\ ~InsideAsPlatform(target) /\ ~InsideAsPlatform(realPath.val)) =>
    Denied(AccessDenied)

(***************************************************************************)
(* C2                                                                      *)
(***************************************************************************)
\* C2: a path that exists inside an allowed root and is, or passes through, a
\* symlink whose ultimate target lies outside every allowed root is Denied.
C2_Original ==
  ( /\ Done /\ exists /\ realPath.ok
    /\ InsideAsPlatform(AbsoluteTarget)
    /\ realPath.val # AbsoluteTarget
    /\ ~InsideAsPlatform(realPath.val) ) => Denied(AccessDenied)

(***************************************************************************)
(* C3                                                                      *)
(***************************************************************************)
\* C3: a request without a URL is Denied with -300 and no stage runs; -300 is
\* produced for no request that carries a URL, whose denials all have -10.
C3_Original ==
  Done =>
    /\ NoUrl(request) => (Denied(InvalidUrl) /\ stages = << >>)
    /\ ~NoUrl(request) => (Allowed \/ Denied(AccessDenied))

(***************************************************************************)
(* C6                                                                      *)
(***************************************************************************)
\* The path is inside an allowed root only when letter case is ignored.
CaseOnly(path) == InsideSomeRootAnyCase(path) /\ ~InsideSomeRoot(path)

\* C6: a resolved path that differs from an allowed root, or from a path
\* under it, only in letter case is Allowed on Windows, the response carrying
\* the path in its own case, and is Denied elsewhere.
C6_Original ==
  (Done /\ realPath.ok /\ CaseOnly(realPath.val)) =>
    /\ isWindows => (Allowed /\ JsonParsePath(outcome.body) = realPath.val)
    /\ ~isWindows => Denied(AccessDenied)

(***************************************************************************)
(* C7                                                                      *)
(***************************************************************************)
\* C7: every invocation ends either in an Allowed response carrying the
\* resolved path and no error code, or in a Denied response carrying -300 or
\* -10 and no body, and no stage runs twice.
C7_Original ==
  Done =>
    /\ \/ Allowed /\ realPath.ok /\ JsonParsePath(outcome.body) = realPath.val
       \/ Denied(InvalidUrl)
       \/ Denied(AccessDenied)
    /\ \A i, j \in 1..Len(stages) : stages[i] = stages[j] => i = j

(***************************************************************************)
(* C8                                                                      *)
(***************************************************************************)
\* C8: an exception raised by the decoding or by the file system calls is
\* caught and becomes a Denied response with -10 and no body; it never leaves
\* the handler and never ends in Allowed.
C8_Original ==
  (Done /\ StageRaised) =>
    /\ Denied(AccessDenied)
    /\ outcome.kind # "throw"
    /\ ~Allowed

(***************************************************************************)
(* C9                                                                      *)
(***************************************************************************)
\* C9: a resolved path that is not absolute is Denied with -10, whatever the
\* allowed roots.
C9_Original ==
  (Done /\ realPath.ok /\ ~IsAbsolute(realPath.val)) => Denied(AccessDenied)

(***************************************************************************)
(* C10                                                                     *)
(***************************************************************************)
\* C10: when the requested entry is removed, or replaced by a link out of the
\* roots, between existsSync and realpathSync, the handler never allows a path
\* outside every allowed root: it denies with -10 or allows a path inside one.
C10_Original ==
  (Done /\ raced /\ AbsoluteTarget = PathOfSegs(LinkPath)) =>
    \/ Denied(AccessDenied)
    \/ Allowed /\ realPath.ok /\ InsideAsPlatform(realPath.val)

====
